---- MODULE Spec2Model ----
(***************************************************************************)
(* The extension registry of zipline/extensions.py: the module-level       *)
(* directory custom_types, the RegistrationManager objects it holds, the   *)
(* dict each manager owns, the read-only proxy over that dict, and the      *)
(* public wrapper functions.  Python objects that are shared by reference   *)
(* (the dicts) live in a heap indexed by object identity.                   *)
(***************************************************************************)
EXTENDS Integers, FiniteSets, Sequences, TLC

VARIABLES
    custom_types,   \* the module-level directory: dtype -> RegistrationManager
    dicts,          \* heap of dict objects: identity -> (name -> class)
    view,           \* the caller's variable holding a result of get_registered_classes
    pending,        \* caller variables holding a result of register(dtype, name)
    last,           \* the most recent call, its arguments and its outcome
    args,           \* create_args: the list of raw argument strings
    extension_args, \* create_args: the dict the arguments are parsed into
    names_sorted,   \* create_args: the list sorted(extension_args, key=len)
    pc,             \* create_args: the statement the call has reached
    idx,            \* create_args: position in the loop that is running
    root,           \* the Namespace tree: attribute path -> what the attribute holds
    error           \* the exception create_args raised, if any

nsvars == <<args, extension_args, names_sorted, pc, idx, root, error>>

vars == <<custom_types, dicts, view, pending, last, nsvars>>

----------------------------------------------------------------------------
(* Bounds of the model *)

MaxDicts == 3       \* dict objects alive at the same time
MaxPending == 1     \* caller variables that hold a completion function
MaxArgs == 3        \* raw arguments in one call of create_args
MaxArgLen == 4      \* characters of the raw argument given to the parser alone

(* The universe of inputs *)

None == "None"
Caps == {"A", "B"}                  \* the types used as dtype
Classes == {"A", "SubA", "B"}       \* the classes offered as custom_class
Names == {"x", "y"}
LookupNames == Names \cup {"w"}     \* "w" is looked up but never registered

DictIds == 1..MaxDicts
PendingSlots == 1..MaxPending

(* issubclass(cls, dtype): SubA derives from A, every class is a subclass of itself *)
issubclass(cls, dtype) == cls = dtype \/ (cls = "SubA" /\ dtype = "A")

----------------------------------------------------------------------------
(* Values *)

EmptyDict == [n \in {} |-> None]

DictSet(d, k, v) == [n \in DOMAIN d \cup {k} |-> IF n = k THEN v ELSE d[n]]
DictDel(d, k) == [n \in DOMAIN d \ {k} |-> d[n]]

HeapPut(ds, id, d) == [i \in DOMAIN ds \cup {id} |-> IF i = id THEN d ELSE ds[i]]

(* identity given to a newly created dict object *)
NewId(ds) == CHOOSE i \in DictIds \ DOMAIN ds : \A j \in DictIds \ DOMAIN ds : i <= j

(* mappingproxy(d): a read-only object that refers to the dict d, not a copy *)
mappingproxy(d) == [proxy_of |-> d]

(* reading a proxy reads the dict it refers to *)
ProxyItems(v, ds) == ds[v.proxy_of]

NoSelf == [dtype |-> None, _classes |-> 0, classes |-> mappingproxy(0)]
NoPartial == [func |-> None, self |-> NoSelf, dtype |-> None, name |-> None]

(* what a call gives back: a returned value, or the error it raises *)
RetNone == <<"none">>
RetClass(c) == <<"class", c>>
RetBool(b) == <<"bool", b>>
RetPartial(p) == <<"partial", p>>
RetView(v) == <<"view", v>>

NoError == [kind |-> "none", what |-> <<>>]

Returns(ret, ds) == [outcome |-> "ok", ret |-> ret, dicts |-> ds]
Raises(err, ds) == [outcome |-> err, ret |-> RetNone, dicts |-> ds]

(* an error whose message lists names *)
RaisesWith(err, options, ds) ==
    [outcome |-> err, ret |-> RetNone, dicts |-> ds, options |-> options]

(* the order of Python strings, here on names of one character: by code point *)
CodePoint == [n \in LookupNames |-> IF n = "w" THEN 119 ELSE IF n = "x" THEN 120 ELSE 121]
str_lt(a, b) == CodePoint[a] < CodePoint[b]

(* sorted(d): the keys of d as a list in ascending order *)
sorted(d) ==
    CHOOSE o \in [1..Cardinality(DOMAIN d) -> DOMAIN d] :
        \A i, j \in 1..Cardinality(DOMAIN d) : i < j => str_lt(o[i], o[j])

(* the keys in descending order *)
sorted_reverse(d) ==
    CHOOSE o \in [1..Cardinality(DOMAIN d) -> DOMAIN d] :
        \A i, j \in 1..Cardinality(DOMAIN d) : i < j => str_lt(o[j], o[i])

----------------------------------------------------------------------------
(* class RegistrationManager *)

(* self._classes = {} is shared by every manager (a class-level dict) *)
RegistrationManager_shared(dtype, ds) ==
    IF DOMAIN ds = {}
    THEN LET d == NewId(ds) IN
         [self |-> [dtype |-> dtype, _classes |-> d, classes |-> mappingproxy(d)],
          dicts |-> HeapPut(ds, d, EmptyDict)]
    ELSE LET d == CHOOSE i \in DOMAIN ds : \A j \in DOMAIN ds : i <= j IN
         [self |-> [dtype |-> dtype, _classes |-> d, classes |-> mappingproxy(d)],
          dicts |-> ds]

(* self.classes = mappingproxy(dict(self._classes)): the proxy is over a copy *)
RegistrationManager_copy(dtype, ds) ==
    LET d == NewId(ds)
        ds1 == HeapPut(ds, d, EmptyDict)
        c == IF DictIds \ DOMAIN ds1 = {} THEN d ELSE NewId(ds1)
    IN  [self |-> [dtype |-> dtype, _classes |-> d, classes |-> mappingproxy(c)],
         dicts |-> HeapPut(ds1, c, EmptyDict)]

(* __init__: a new empty dict, and a proxy over that same dict *)
RegistrationManager(dtype, ds) ==
    LET d == NewId(ds) IN
    [self |-> [dtype |-> dtype, _classes |-> d, classes |-> mappingproxy(d)],
     dicts |-> HeapPut(ds, d, EmptyDict)]

(* load whose error lists the names in the wrong order *)
RM_load_unsorted(self, name, ds) ==
    IF name \in DOMAIN ds[self._classes]
    THEN Returns(RetClass(ds[self._classes][name]), ds)
    ELSE RaisesWith("NameNotRegistered", sorted_reverse(ds[self._classes]), ds)

RM_load(self, name, ds) ==
    IF name \in DOMAIN ds[self._classes]
    THEN Returns(RetClass(ds[self._classes][name]), ds)
    ELSE RaisesWith("NameNotRegistered", sorted(ds[self._classes]), ds)

RM_class_registered(self, name, ds) ==
    Returns(RetBool(name \in DOMAIN ds[self._classes]), ds)

(* the completion function of the method: partial(self.register, name) *)
partial_method(self, name) ==
    [func |-> "RegistrationManager.register", self |-> self,
     dtype |-> self.dtype, name |-> name]

(* register without the duplicate check: a second registration overwrites *)
RM_register_overwrite(self, name, custom_class, ds) ==
    IF custom_class = None
    THEN Returns(RetPartial(partial_method(self, name)), ds)
    ELSE IF ~issubclass(custom_class, self.dtype)
    THEN Raises("TypeMismatch", ds)
    ELSE Returns(RetClass(custom_class),
                 HeapPut(ds, self._classes,
                         DictSet(ds[self._classes], name, custom_class)))

(* register without the issubclass check *)
RM_register_untyped(self, name, custom_class, ds) ==
    IF custom_class = None
    THEN Returns(RetPartial(partial_method(self, name)), ds)
    ELSE IF name \in DOMAIN ds[self._classes]
    THEN Raises("DuplicateRegistration", ds)
    ELSE Returns(RetClass(custom_class),
                 HeapPut(ds, self._classes,
                         DictSet(ds[self._classes], name, custom_class)))

(* register that checks and returns but never stores *)
RM_register_nostore(self, name, custom_class, ds) ==
    IF custom_class = None
    THEN Returns(RetPartial(partial_method(self, name)), ds)
    ELSE IF name \in DOMAIN ds[self._classes]
    THEN Raises("DuplicateRegistration", ds)
    ELSE IF ~issubclass(custom_class, self.dtype)
    THEN Raises("TypeMismatch", ds)
    ELSE Returns(RetClass(custom_class), ds)

(* register with the two checks in the other order: issubclass first *)
RM_register_typefirst(self, name, custom_class, ds) ==
    IF custom_class = None
    THEN Returns(RetPartial(partial_method(self, name)), ds)
    ELSE IF ~issubclass(custom_class, self.dtype)
    THEN Raises("TypeMismatch", ds)
    ELSE IF name \in DOMAIN ds[self._classes]
    THEN Raises("DuplicateRegistration", ds)
    ELSE Returns(RetClass(custom_class),
                 HeapPut(ds, self._classes,
                         DictSet(ds[self._classes], name, custom_class)))

RM_register(self, name, custom_class, ds) ==
    IF custom_class = None
    THEN Returns(RetPartial(partial_method(self, name)), ds)
    ELSE IF RM_class_registered(self, name, ds).ret[2]
    THEN Raises("DuplicateRegistration", ds)
    ELSE IF ~issubclass(custom_class, self.dtype)
    THEN Raises("TypeMismatch", ds)
    ELSE Returns(RetClass(custom_class),
                 HeapPut(ds, self._classes,
                         DictSet(ds[self._classes], name, custom_class)))

(* unregister that empties the dict (self._classes.clear()) where it should *)
(* delete one key                                                           *)
RM_unregister_all(self, name, ds) ==
    IF name \in DOMAIN ds[self._classes]
    THEN Returns(RetNone, HeapPut(ds, self._classes, EmptyDict))
    ELSE Raises("NameNotRegistered", ds)

RM_unregister(self, name, ds) ==
    IF name \in DOMAIN ds[self._classes]
    THEN Returns(RetNone,
                 HeapPut(ds, self._classes, DictDel(ds[self._classes], name)))
    ELSE Raises("NameNotRegistered", ds)

RM_clear(self, ds) ==
    Returns(RetNone, HeapPut(ds, self._classes, EmptyDict))

RM_get_registered_classes(self, ds) ==
    Returns(RetView(self.classes), ds)

----------------------------------------------------------------------------
(* the public wrapper functions *)

get_registration_manager(dtype, ct) ==
    IF dtype \in DOMAIN ct
    THEN [outcome |-> "ok", self |-> ct[dtype]]
    ELSE [outcome |-> "CapabilityNotDeclared", self |-> NoSelf]

(* load that reports an undeclared dtype as a name that is not registered *)
load_wrongerror(dtype, name, ct, ds) ==
    LET m == get_registration_manager(dtype, ct) IN
    IF m.outcome # "ok" THEN Raises("NameNotRegistered", ds)
    ELSE RM_load(m.self, name, ds)

load(dtype, name, ct, ds) ==
    LET m == get_registration_manager(dtype, ct) IN
    IF m.outcome # "ok" THEN Raises(m.outcome, ds)
    ELSE RM_load(m.self, name, ds)

class_registered(dtype, name, ct, ds) ==
    LET m == get_registration_manager(dtype, ct) IN
    IF m.outcome # "ok" THEN Raises(m.outcome, ds)
    ELSE RM_class_registered(m.self, name, ds)

(* the completion function of the wrapper: partial(register, dtype, name) *)
partial_register(dtype, name) ==
    [func |-> "register", self |-> NoSelf, dtype |-> dtype, name |-> name]

(* register that resolves the manager first and binds the completion to it *)
register_eager(dtype, name, custom_class, ct, ds) ==
    LET m == get_registration_manager(dtype, ct) IN
    IF m.outcome # "ok"
    THEN IF custom_class = None
         THEN Returns(RetPartial(partial_register(dtype, name)), ds)
         ELSE Raises(m.outcome, ds)
    ELSE RM_register(m.self, name, custom_class, ds)

register(dtype, name, custom_class, ct, ds) ==
    IF custom_class = None
    THEN Returns(RetPartial(partial_register(dtype, name)), ds)
    ELSE LET m == get_registration_manager(dtype, ct) IN
         IF m.outcome # "ok" THEN Raises(m.outcome, ds)
         ELSE RM_register(m.self, name, custom_class, ds)

unregister(dtype, name, ct, ds) ==
    LET m == get_registration_manager(dtype, ct) IN
    IF m.outcome # "ok" THEN Raises(m.outcome, ds)
    ELSE RM_unregister(m.self, name, ds)

clear(dtype, ct, ds) ==
    LET m == get_registration_manager(dtype, ct) IN
    IF m.outcome # "ok" THEN Raises(m.outcome, ds)
    ELSE RM_clear(m.self, ds)

get_registered_classes(dtype, ct, ds) ==
    LET m == get_registration_manager(dtype, ct) IN
    IF m.outcome # "ok" THEN Raises(m.outcome, ds)
    ELSE RM_get_registered_classes(m.self, ds)

(* create_registration_manager as custom_types.setdefault(dtype, ...) *)
create_registration_manager_keep(dtype, ct, ds) ==
    IF dtype \in DOMAIN ct
    THEN [custom_types |-> ct, dicts |-> ds, ret |-> RetClass(dtype)]
    ELSE LET r == RegistrationManager(dtype, ds) IN
         [custom_types |-> [c \in DOMAIN ct \cup {dtype} |->
                               IF c = dtype THEN r.self ELSE ct[c]],
          dicts |-> r.dicts,
          ret |-> RetClass(dtype)]

create_registration_manager(dtype, ct, ds) ==
    LET r == RegistrationManager(dtype, ds) IN
    [custom_types |-> [c \in DOMAIN ct \cup {dtype} |->
                          IF c = dtype THEN r.self ELSE ct[c]],
     dicts |-> r.dicts,
     ret |-> RetClass(dtype)]

(* calling a completion function p with one argument *)
Call(p, custom_class, ct, ds) ==
    IF p.func = "register"
    THEN register(p.dtype, p.name, custom_class, ct, ds)
    ELSE RM_register(p.self, p.name, custom_class, ds)

----------------------------------------------------------------------------
(* Object lifetime: a dict lives as long as something refers to it *)

Referenced(ct, v, ps) ==
    {ct[c]._classes : c \in DOMAIN ct}
    \cup {ct[c].classes.proxy_of : c \in DOMAIN ct}
    \cup (IF v.held THEN {v.view.proxy_of} ELSE {})
    \cup {ps[s].fn.self._classes :
            s \in {t \in DOMAIN ps : ps[t].held /\ ps[t].fn.self # NoSelf}}
    \cup {ps[s].fn.self.classes.proxy_of :
            s \in {t \in DOMAIN ps : ps[t].held /\ ps[t].fn.self # NoSelf}}

Collect(ds, ct, v, ps) ==
    [i \in DOMAIN ds \cap Referenced(ct, v, ps) |-> ds[i]]

----------------------------------------------------------------------------
(* The state machine *)

NoView == [held |-> FALSE, view |-> mappingproxy(0), dtype |-> None, stale |-> FALSE]
NoPending == [held |-> FALSE, fn |-> NoPartial, dtype |-> None, name |-> None]

Called(op, dtype, name, cls, res) ==
    [op |-> op, dtype |-> dtype, name |-> name, cls |-> cls,
     outcome |-> res.outcome, ret |-> res.ret,
     options |-> IF "options" \in DOMAIN res THEN res.options ELSE <<>>]

(* the module as imported: no manager declared *)
RegistryInit ==
    /\ custom_types = [c \in {} |-> NoSelf]
    /\ dicts = [d \in {} |-> EmptyDict]
    /\ view = NoView
    /\ pending = [s \in PendingSlots |-> NoPending]
    /\ last = Called("init", None, None, None, Returns(RetNone, dicts))

(* no call of create_args is under way *)
NoCreateArgs ==
    /\ args = <<>>
    /\ extension_args = EmptyDict
    /\ names_sorted = <<>>
    /\ pc = "idle"
    /\ idx = 0
    /\ root = EmptyDict
    /\ error = NoError

Init == RegistryInit /\ NoCreateArgs

(* create_registration_manager(dtype), also used as the decorator extensible *)
Declare(dtype) ==
    /\ DictIds \ DOMAIN dicts # {}
    /\ LET r == create_registration_manager(dtype, custom_types, dicts) IN
       /\ custom_types' = r.custom_types
       /\ view' = IF view.held /\ view.dtype = dtype
                  THEN [view EXCEPT !.stale = TRUE] ELSE view
       /\ dicts' = Collect(r.dicts, custom_types', view', pending)
       /\ last' = Called("declare", dtype, None, None,
                         [outcome |-> "ok", ret |-> r.ret])
    /\ UNCHANGED <<pending, nsvars>>

(* register(dtype, name, custom_class) with a class *)
Register(dtype, name, cls) ==
    LET r == register(dtype, name, cls, custom_types, dicts) IN
    /\ dicts' = r.dicts
    /\ last' = Called("register", dtype, name, cls, r)
    /\ UNCHANGED <<custom_types, view, pending, nsvars>>

(* f = register(dtype, name): the caller keeps the completion function *)
RegisterDeferred(dtype, name, s) ==
    LET r == register(dtype, name, None, custom_types, dicts) IN
    /\ pending' = [pending EXCEPT ![s] =
                     IF r.outcome = "ok" /\ r.ret[1] = "partial"
                     THEN [held |-> TRUE, fn |-> r.ret[2],
                           dtype |-> dtype, name |-> name]
                     ELSE @]
    /\ dicts' = Collect(r.dicts, custom_types, view, pending')
    /\ last' = Called("register", dtype, name, None, r)
    /\ UNCHANGED <<custom_types, view, nsvars>>

(* f(custom_class): the caller invokes a completion function it holds *)
Complete(s, cls) ==
    /\ pending[s].held
    /\ LET r == Call(pending[s].fn, cls, custom_types, dicts) IN
       /\ dicts' = r.dicts
       /\ last' = Called("complete", pending[s].dtype, pending[s].name, cls, r)
    /\ UNCHANGED <<custom_types, view, pending, nsvars>>

Load(dtype, name) ==
    LET r == load(dtype, name, custom_types, dicts) IN
    /\ dicts' = r.dicts
    /\ last' = Called("load", dtype, name, None, r)
    /\ UNCHANGED <<custom_types, view, pending, nsvars>>

ClassRegistered(dtype, name) ==
    LET r == class_registered(dtype, name, custom_types, dicts) IN
    /\ dicts' = r.dicts
    /\ last' = Called("class_registered", dtype, name, None, r)
    /\ UNCHANGED <<custom_types, view, pending, nsvars>>

Unregister(dtype, name) ==
    LET r == unregister(dtype, name, custom_types, dicts) IN
    /\ dicts' = r.dicts
    /\ last' = Called("unregister", dtype, name, None, r)
    /\ UNCHANGED <<custom_types, view, pending, nsvars>>

Clear(dtype) ==
    LET r == clear(dtype, custom_types, dicts) IN
    /\ dicts' = r.dicts
    /\ last' = Called("clear", dtype, None, None, r)
    /\ UNCHANGED <<custom_types, view, pending, nsvars>>

(* get_registered_classes(dtype), the result used and dropped *)
GetRegisteredClasses(dtype) ==
    LET r == get_registered_classes(dtype, custom_types, dicts) IN
    /\ dicts' = r.dicts
    /\ last' = Called("get_registered_classes", dtype, None, None, r)
    /\ UNCHANGED <<custom_types, view, pending, nsvars>>

(* v = get_registered_classes(dtype): the caller keeps the view *)
KeepView(dtype) ==
    LET r == get_registered_classes(dtype, custom_types, dicts) IN
    /\ view' = IF r.outcome = "ok"
               THEN [held |-> TRUE, view |-> r.ret[2],
                     dtype |-> dtype, stale |-> FALSE]
               ELSE view
    /\ dicts' = Collect(r.dicts, custom_types, view', pending)
    /\ last' = Called("get_registered_classes", dtype, None, None, r)
    /\ UNCHANGED <<custom_types, pending, nsvars>>

(* v[name] = cls on a held view: the proxy has no item assignment *)
ViewSetItem(name, cls) ==
    /\ view.held
    /\ last' = Called("view_setitem", view.dtype, name, cls,
                      Raises("ReadOnlyView", dicts))
    /\ UNCHANGED <<custom_types, dicts, view, pending, nsvars>>

Next ==
    \/ \E dtype \in Caps : Declare(dtype)
    \/ \E dtype \in Caps, name \in Names, cls \in Classes : Register(dtype, name, cls)
    \/ \E dtype \in Caps, name \in Names, s \in PendingSlots : RegisterDeferred(dtype, name, s)
    \/ \E s \in PendingSlots, cls \in Classes \cup {None} : Complete(s, cls)
    \/ \E dtype \in Caps, name \in Names : Load(dtype, name)
    \/ \E dtype \in Caps, name \in Names : ClassRegistered(dtype, name)
    \/ \E dtype \in Caps, name \in Names : Unregister(dtype, name)
    \/ \E dtype \in Caps : Clear(dtype)
    \/ \E dtype \in Caps : GetRegisteredClasses(dtype)

Spec == Init /\ [][Next]_vars

(* the registry with a caller that keeps a view *)
NextView ==
    \/ \E dtype \in Caps : Declare(dtype)
    \/ \E dtype \in Caps, name \in Names, cls \in Classes : Register(dtype, name, cls)
    \/ \E dtype \in Caps, name \in Names : Unregister(dtype, name)
    \/ \E dtype \in Caps : Clear(dtype)
    \/ \E dtype \in Caps : KeepView(dtype)
    \/ \E name \in Names, cls \in Classes : ViewSetItem(name, cls)

SpecView == Init /\ [][NextView]_vars

(* the registry with a caller that also looks up a name nobody registers *)
NextLoad ==
    \/ \E dtype \in Caps : Declare(dtype)
    \/ \E dtype \in Caps, name \in Names, cls \in Classes : Register(dtype, name, cls)
    \/ \E dtype \in Caps, name \in Names : Unregister(dtype, name)
    \/ \E dtype \in Caps : Clear(dtype)
    \/ \E dtype \in Caps, name \in LookupNames : Load(dtype, name)

SpecLoad == Init /\ [][NextLoad]_vars

----------------------------------------------------------------------------
(* Strings of create_args: a Python string is the sequence of its          *)
(* characters                                                              *)

Letters == {"a", "b", "c", "d", "o"}
Digits == {"1", "2"}
WordChars == Letters \cup Digits \cup {"_"}       \* what \w matches
IdentStart == WordChars \ Digits                  \* what [^\d\W] matches

(* the raw arguments offered to create_args *)
ArgPool ==
    { <<"a", "=", "1">>,                                         \* a=1
      <<"a", "=", "2">>,                                         \* a=2
      <<"b", "=", "1", "=", "2">>,                               \* b=1=2
      <<"a", ".", "b", "=", "1">>,                               \* a.b=1
      <<"a", ".", "b", "=", "2">>,                               \* a.b=2
      <<"a", ".", "c", "=", "2">>,                               \* a.c=2
      <<"a", ".", "b", ".", "c", "=", "1">>,                     \* a.b.c=1
      <<"_", "_", "d", "o", "c", "_", "_", ".", "a", "=", "1">>, \* __doc__.a=1
      <<"b", ".", "_", "_", "d", "o", "c", "_", "_", ".", "a", "=", "1">>,
                                                                 \* b.__doc__.a=1
      <<"a", "b">>,                                              \* ab
      <<"1", "a", "=", "1">> }                                   \* 1a=1

(* the raw arguments offered to parse_extension_arg alone: every string of *)
(* at most MaxArgLen characters                                            *)
ParseChars == {"a", "1", "_", ".", "=", "\n"}
ParsePool == UNION {[1..n -> ParseChars] : n \in 0..MaxArgLen}

(* the first position from k on where s holds a character of cs, or        *)
(* Len(s) + 1                                                              *)
RECURSIVE Find(_, _, _)
Find(s, cs, k) ==
    IF k > Len(s) \/ s[k] \in cs THEN k ELSE Find(s, cs, k + 1)

(* a run of word characters from position k: the position after its last *)
(* character                                                              *)
RECURSIVE WordEnd(_, _)
WordEnd(s, k) ==
    IF k <= Len(s) /\ s[k] \in WordChars THEN WordEnd(s, k + 1) ELSE k

(* the name group of the pattern from position k, greedy: identifiers     *)
(* joined by dots, an identifier being a word character that is no digit   *)
(* and then word characters; the position after the match, or 0 when there *)
(* is none                                                                 *)
RECURSIVE ChainEnd(_, _)
ChainEnd(s, k) ==
    IF k > Len(s) \/ s[k] \notin IdentStart THEN 0
    ELSE LET e == WordEnd(s, k + 1) IN
         IF e <= Len(s) /\ s[e] = "." /\ ChainEnd(s, e + 1) # 0
         THEN ChainEnd(s, e + 1)
         ELSE e

NoMatch == [matched |-> FALSE, group1 |-> <<>>, group4 |-> <<>>]

(* re.match of the pattern of parse_extension_arg on arg: the name group,  *)
(* an equals sign, then the value group, any characters but a newline, up  *)
(* to $, which matches at the end and before a newline that ends the       *)
(* string                                                                  *)
re_match(arg) ==
    LET e == ChainEnd(arg, 1) IN
    IF e = 0 \/ e > Len(arg) \/ arg[e] # "=" THEN NoMatch
    ELSE LET v == Find(arg, {"\n"}, e + 1) IN
         IF v > Len(arg) \/ v = Len(arg)
         THEN [matched |-> TRUE,
               group1 |-> SubSeq(arg, 1, e - 1),
               group4 |-> SubSeq(arg, e + 1, v - 1)]
         ELSE NoMatch

(* parse_extension_arg that skips a string it cannot match *)
parse_extension_arg_lenient(arg, arg_dict) ==
    LET match == re_match(arg) IN
    IF ~match.matched
    THEN [outcome |-> "ok", what |-> <<>>, arg_dict |-> arg_dict]
    ELSE [outcome |-> "ok", what |-> <<>>,
          arg_dict |-> DictSet(arg_dict, match.group1, match.group4)]

(* parse_extension_arg as arg_dict.setdefault(name, value) *)
parse_extension_arg_keepfirst(arg, arg_dict) ==
    LET match == re_match(arg) IN
    IF ~match.matched
    THEN [outcome |-> "InvalidArgumentSyntax", what |-> arg, arg_dict |-> arg_dict]
    ELSE [outcome |-> "ok", what |-> <<>>,
          arg_dict |-> IF match.group1 \in DOMAIN arg_dict THEN arg_dict
                       ELSE DictSet(arg_dict, match.group1, match.group4)]

parse_extension_arg(arg, arg_dict) ==
    LET match == re_match(arg) IN
    IF ~match.matched
    THEN [outcome |-> "InvalidArgumentSyntax", what |-> arg, arg_dict |-> arg_dict]
    ELSE [outcome |-> "ok", what |-> <<>>,
          arg_dict |-> DictSet(arg_dict, match.group1, match.group4)]

(* name.split('.') *)
RECURSIVE split(_)
split(name) ==
    LET k == Find(name, {"."}, 1) IN
    IF k > Len(name) THEN <<name>>
    ELSE <<SubSeq(name, 1, k - 1)>> \o split(SubSeq(name, k + 1, Len(name)))

(* the lists of the elements of S, each once *)
Permutations_of(S) ==
    {o \in [1..Cardinality(S) -> S] : \A m, n \in 1..Cardinality(S) : m # n => o[m] # o[n]}

(* the keys in any order at all *)
sorted_by_len_unsorted(d) == Permutations_of(DOMAIN d)

(* the keys by descending length *)
sorted_by_len_descending(d) ==
    {o \in Permutations_of(DOMAIN d) :
        \A m, n \in DOMAIN o : m < n => Len(o[m]) >= Len(o[n])}

(* sorted(d, key=len): the keys by ascending length; the sort is stable,   *)
(* so keys of one length come in the order the dict iterates them, which   *)
(* the language leaves to the build                                        *)
sorted_by_len(d) ==
    {o \in Permutations_of(DOMAIN d) :
        \A m, n \in DOMAIN o : m < n => Len(o[m]) <= Len(o[n])}

----------------------------------------------------------------------------
(* class Namespace: the objects are the nodes of a tree; the tree maps the *)
(* attribute path of every attribute set on an instance to what it holds   *)

NsNode == <<"namespace">>
StrLeaf(v) == <<"str", v>>

DunderDoc == <<"_", "_", "d", "o", "c", "_", "_">>

(* attributes every instance has from its class: the docstring of the      *)
(* class statement                                                         *)
NamespaceClassAttrs == [a \in {DunderDoc} |-> StrLeaf(<<"d", "o", "c">>)]

IsPrefix(p, q) == Len(p) <= Len(q) /\ SubSeq(q, 1, Len(p)) = p
IsProperPrefix(p, q) == Len(p) < Len(q) /\ IsPrefix(p, q)

hasattr(tree, namespace, attr) ==
    Append(namespace, attr) \in DOMAIN tree \/ attr \in DOMAIN NamespaceClassAttrs

getattr(tree, namespace, attr) ==
    IF Append(namespace, attr) \in DOMAIN tree
    THEN tree[Append(namespace, attr)]
    ELSE NamespaceClassAttrs[attr]

(* setattr: the attribute holds the new value; what the old value held is  *)
(* no longer reachable from the root                                       *)
setattr(tree, namespace, attr, value) ==
    LET p == Append(namespace, attr) IN
    [q \in {r \in DOMAIN tree : ~IsProperPrefix(p, r)} \cup {p} |->
        IF q = p THEN value ELSE tree[q]]

(* update_namespace(namespace, path, name), on the object at the attribute *)
(* path namespace of the tree                                              *)
RECURSIVE update_namespace(_, _, _, _)
update_namespace(tree, namespace, path, name) ==
    IF Len(path) = 1
    THEN [outcome |-> "ok", what |-> <<>>,
          tree |-> setattr(tree, namespace, path[1], StrLeaf(name))]
    ELSE IF hasattr(tree, namespace, path[1])
         THEN IF getattr(tree, namespace, path[1])[1] = "str"
              THEN [outcome |-> "ConflictingNamespaceAssignment",
                    what |-> path[1], tree |-> tree]
              ELSE update_namespace(tree, Append(namespace, path[1]), Tail(path), name)
         ELSE update_namespace(setattr(tree, namespace, path[1], NsNode),
                               Append(namespace, path[1]), Tail(path), name)

----------------------------------------------------------------------------
(* create_args(args, root), one loop iteration at a time *)

(* for arg in args: parse_extension_arg(arg, extension_args) *)
ParseArg ==
    /\ pc = "parse"
    /\ LET r == parse_extension_arg(args[idx], extension_args) IN
       /\ extension_args' = r.arg_dict
       /\ IF r.outcome = "ok"
          THEN /\ pc' = IF idx = Len(args) THEN "sort" ELSE "parse"
               /\ idx' = idx + 1
               /\ error' = error
          ELSE /\ pc' = "raised"
               /\ idx' = idx
               /\ error' = [kind |-> r.outcome, what |-> r.what]
    /\ UNCHANGED <<custom_types, dicts, view, pending, last, args, names_sorted, root>>

(* sorted(extension_args, key=len) *)
SortNames ==
    /\ pc = "sort"
    /\ \E o \in sorted_by_len(extension_args) :
         /\ names_sorted' = o
         /\ pc' = IF o = <<>> THEN "done" ELSE "apply"
    /\ idx' = 1
    /\ UNCHANGED <<custom_types, dicts, view, pending, last, args, extension_args,
                   root, error>>

(* for name in ...: update_namespace(root, name.split('.'), extension_args[name]) *)
ApplyPath ==
    /\ pc = "apply"
    /\ LET name == names_sorted[idx]
           r == update_namespace(root, <<>>, split(name), extension_args[name])
       IN
       /\ root' = r.tree
       /\ IF r.outcome = "ok"
          THEN /\ pc' = IF idx = Len(names_sorted) THEN "done" ELSE "apply"
               /\ idx' = idx + 1
               /\ error' = error
          ELSE /\ pc' = "raised"
               /\ idx' = idx
               /\ error' = [kind |-> r.outcome, what |-> r.what]
    /\ UNCHANGED <<custom_types, dicts, view, pending, last, args, extension_args,
                   names_sorted>>

(* create_args is called with a list of raw arguments and an empty root *)
CreateArgsInit(pool, maxargs) ==
    /\ RegistryInit
    /\ args \in UNION {[1..n -> pool] : n \in 0..maxargs}
    /\ extension_args = EmptyDict
    /\ names_sorted = <<>>
    /\ pc = IF args = <<>> THEN "sort" ELSE "parse"
    /\ idx = 1
    /\ root = EmptyDict
    /\ error = NoError

InitArgs == CreateArgsInit(ArgPool, MaxArgs)

NextArgs ==
    \/ ParseArg
    \/ SortNames
    \/ ApplyPath

SpecArgs == InitArgs /\ [][NextArgs]_vars

(* parse_extension_arg on its own: one raw argument, an empty dict *)
InitParse == CreateArgsInit(ParsePool, 1)

NextParse == ParseArg

SpecParse == InitParse /\ [][NextParse]_vars

----------------------------------------------------------------------------
(* What a caller can observe of the registry *)

Declared(dtype) == dtype \in DOMAIN custom_types

IsRegisteredIn(dtype, name, ct, ds) ==
    LET r == class_registered(dtype, name, ct, ds) IN
    r.outcome = "ok" /\ r.ret[2]

LoadedIn(dtype, name, ct, ds) ==
    LET r == load(dtype, name, ct, ds) IN <<r.outcome, r.ret>>

(* before the step, and in a state by itself *)
IsRegistered(dtype, name) == IsRegisteredIn(dtype, name, custom_types, dicts)
Loaded(dtype, name) == LoadedIn(dtype, name, custom_types, dicts)

(* after the step *)
DeclaredAfter(dtype) == dtype \in DOMAIN custom_types'
IsRegisteredAfter(dtype, name) == IsRegisteredIn(dtype, name, custom_types', dicts')
LoadedAfter(dtype, name) == LoadedIn(dtype, name, custom_types', dicts')

(* the name -> implementation mapping of dtype, as load reports it *)
Observed(dtype) == [n \in Names |-> Loaded(dtype, n)]
ObservedAfter(dtype) == [n \in Names |-> LoadedAfter(dtype, n)]

RegistryUnchanged == custom_types' = custom_types /\ dicts' = dicts

WrapperOps == {"load", "class_registered", "register", "unregister", "clear",
               "get_registered_classes"}

(* the call recorded in l takes name n out of dtype C: unregister(C, n), *)
(* clear(C) or a redeclaration of C                                       *)
Removes(l, C, n) ==
    /\ l.dtype = C
    /\ \/ l.op \in {"declare", "clear"}
       \/ l.op = "unregister" /\ l.name = n

----------------------------------------------------------------------------
(* C1: for a declared capability, load of a name that is not registered    *)
(* fails with NameNotRegistered; a successful register(C, n, impl) makes   *)
(* load(C, n) return exactly impl, and load(C, n) keeps returning it over  *)
(* every call that does not unregister n, clear C or redeclare C.          *)
C1_LoadAfterRegister ==
    [][ /\ (last'.op = "load" /\ Declared(last'.dtype)
              /\ ~IsRegistered(last'.dtype, last'.name))
           => last'.outcome = "NameNotRegistered"
        /\ (last'.op = "register" /\ last'.cls # None /\ last'.outcome = "ok")
           => /\ last'.ret = RetClass(last'.cls)
              /\ LoadedAfter(last'.dtype, last'.name) = <<"ok", RetClass(last'.cls)>>
        /\ \A C \in Caps, n \in Names :
             (Loaded(C, n)[1] = "ok" /\ ~Removes(last', C, n))
             => LoadedAfter(C, n) = Loaded(C, n)
      ]_vars

C1_Witness ==
    /\ last.op = "load"
    /\ last.outcome = "ok"
    /\ last.ret = RetClass("SubA")

(* C2: register(C, n, impl2) on a name already registered under C fails    *)
(* with DuplicateRegistration, whether or not impl2 is the registered      *)
(* class, and changes nothing: load(C, n) still returns the first class.   *)
C2_DuplicateRejected ==
    [][ (last'.op = "register" /\ last'.cls # None
           /\ IsRegistered(last'.dtype, last'.name))
        => /\ last'.outcome = "DuplicateRegistration"
           /\ RegistryUnchanged
           /\ LoadedAfter(last'.dtype, last'.name) = Loaded(last'.dtype, last'.name)
      ]_vars

C2_Witness ==
    /\ last.op = "register"
    /\ last.outcome = "DuplicateRegistration"
    /\ issubclass(last.cls, last.dtype)
    /\ Loaded(last.dtype, last.name)[1] = "ok"
    /\ Loaded(last.dtype, last.name)[2] # RetClass(last.cls)

(* C3 as stated: in every registry state, register(C, n, impl) with an     *)
(* impl that is not a subclass of C fails with TypeMismatch and with no    *)
(* other error, and changes nothing.                                       *)
C3_Original ==
    [][ (last'.op = "register" /\ last'.cls # None /\ Declared(last'.dtype)
           /\ ~issubclass(last'.cls, last'.dtype))
        => /\ last'.outcome = "TypeMismatch"
           /\ RegistryUnchanged
      ]_vars

(* C3: register(C, n, impl) with an impl that is not a subclass of the     *)
(* declared C changes nothing and fails: with TypeMismatch when n is not   *)
(* registered under C, with DuplicateRegistration when n is registered     *)
(* (the duplicate check comes first).                                      *)
C3_TypeMismatch ==
    [][ (last'.op = "register" /\ last'.cls # None /\ Declared(last'.dtype)
           /\ ~issubclass(last'.cls, last'.dtype))
        => /\ last'.outcome = IF IsRegistered(last'.dtype, last'.name)
                              THEN "DuplicateRegistration" ELSE "TypeMismatch"
           /\ RegistryUnchanged
      ]_vars

C3_Witness ==
    /\ last.op = "register"
    /\ last.outcome = "TypeMismatch"
    /\ \E n \in Names : IsRegistered(last.dtype, n)

(* C4: after any sequence of declare, register, completion of a deferred   *)
(* register, unregister and clear, every class stored in the manager of a  *)
(* capability C is a subclass of C.                                        *)
C4_StoredSatisfyIsA ==
    \A C \in DOMAIN custom_types :
        \A n \in DOMAIN dicts[custom_types[C]._classes] :
            issubclass(dicts[custom_types[C]._classes][n], C)

C4_Witness ==
    /\ last.op = "complete"
    /\ last.outcome = "TypeMismatch"
    /\ \E n \in Names : IsRegistered("A", n)
    /\ \E n \in Names : IsRegistered("B", n)

(* C5: unregister(C, n) of a registered name removes exactly n: load(C, n) *)
(* then fails with NameNotRegistered and every other name under C loads    *)
(* as before; unregister of a name that is not registered fails with       *)
(* NameNotRegistered and changes nothing.                                  *)
C5_Unregister ==
    [][ (last'.op = "unregister" /\ Declared(last'.dtype))
        => IF IsRegistered(last'.dtype, last'.name)
           THEN /\ last'.outcome = "ok"
                /\ LoadedAfter(last'.dtype, last'.name)[1] = "NameNotRegistered"
                /\ \A n \in Names \ {last'.name} :
                       LoadedAfter(last'.dtype, n) = Loaded(last'.dtype, n)
                /\ custom_types' = custom_types
           ELSE /\ last'.outcome = "NameNotRegistered"
                /\ RegistryUnchanged
      ]_vars

C5_Witness ==
    /\ last.op = "unregister"
    /\ last.outcome = "ok"
    /\ \E n \in Names \ {last.name} : IsRegistered(last.dtype, n)

(* C6: clear(C) removes every registration of C; no call addressed to C    *)
(* changes what any other capability D has declared or registered; and a   *)
(* name registered under D does not stop its registration under C.         *)
C6_Isolation ==
    [][ /\ \A D \in Caps \ {last'.dtype} :
             /\ DeclaredAfter(D) = Declared(D)
             /\ ObservedAfter(D) = Observed(D)
        /\ (last'.op = "clear" /\ last'.outcome = "ok")
           => \A n \in Names : ~IsRegisteredAfter(last'.dtype, n)
        /\ (last'.op = "register" /\ last'.cls # None /\ Declared(last'.dtype)
              /\ ~IsRegistered(last'.dtype, last'.name)
              /\ issubclass(last'.cls, last'.dtype))
           => last'.outcome = "ok"
      ]_vars

C6_Witness ==
    /\ last.op = "clear"
    /\ last.outcome = "ok"
    /\ \E D \in Caps \ {last.dtype} : \A n \in Names : IsRegistered(D, n)

(* C7 as stated: load, is_registered, register (with or without a class),  *)
(* unregister, clear and registered_view each fail with                    *)
(* CapabilityNotDeclared when the capability has no manager, and leave the *)
(* directory unchanged.                                                    *)
C7_Original ==
    [][ (last'.op \in WrapperOps /\ ~Declared(last'.dtype))
        => /\ last'.outcome = "CapabilityNotDeclared"
           /\ RegistryUnchanged
      ]_vars

(* C7: on a capability with no manager, load, is_registered, register with *)
(* a class, unregister, clear and registered_view fail with                *)
(* CapabilityNotDeclared at the call and change nothing; register without  *)
(* a class does not look the capability up: it returns a completion        *)
(* function, changes nothing, and the completion function fails with       *)
(* CapabilityNotDeclared when it is given a class while the capability is  *)
(* still undeclared.                                                       *)
C7_UndeclaredFails ==
    [][ /\ (last'.op \in WrapperOps /\ ~Declared(last'.dtype))
           => /\ IF last'.op = "register" /\ last'.cls = None
                 THEN last'.outcome = "ok" /\ last'.ret[1] = "partial"
                 ELSE last'.outcome = "CapabilityNotDeclared"
              /\ RegistryUnchanged
        /\ (last'.op = "complete" /\ last'.cls # None /\ ~Declared(last'.dtype))
           => /\ last'.outcome = "CapabilityNotDeclared"
              /\ RegistryUnchanged
      ]_vars

C7_Witness ==
    /\ last.op = "complete"
    /\ last.outcome = "CapabilityNotDeclared"
    /\ DOMAIN custom_types # {}

(* C8: declare(C) returns C and leaves C with an empty manager: right      *)
(* after it no name is registered under C and every load(C, n) fails with  *)
(* NameNotRegistered, also for names registered before a redeclaration;    *)
(* the managers of the other capabilities are as before.                   *)
C8_DeclareFresh ==
    [][ last'.op = "declare"
        => /\ last'.outcome = "ok"
           /\ last'.ret = RetClass(last'.dtype)
           /\ DeclaredAfter(last'.dtype)
           /\ \A n \in Names :
                /\ ~IsRegisteredAfter(last'.dtype, n)
                /\ LoadedAfter(last'.dtype, n)[1] = "NameNotRegistered"
           /\ \A D \in Caps \ {last'.dtype} :
                /\ DeclaredAfter(D) = Declared(D)
                /\ Declared(D) => custom_types'[D] = custom_types[D]
                /\ ObservedAfter(D) = Observed(D)
      ]_vars

(* a redeclaration of a capability that had registrations: the view taken  *)
(* before it still shows them                                              *)
C8_Witness ==
    /\ last.op = "declare"
    /\ view.held /\ view.stale /\ view.dtype = last.dtype
    /\ DOMAIN ProxyItems(view.view, dicts) # {}
    /\ \E D \in Caps \ {last.dtype} : \E n \in Names : IsRegistered(D, n)

(* C9: a view obtained from registered_view(C) shows, after any later      *)
(* register, unregister and clear on C (no redeclaration of C), exactly    *)
(* the names that is_registered(C, .) reports, each with the class that    *)
(* load(C, .) returns; and assigning through the view fails and changes    *)
(* nothing.                                                                *)
C9_ViewLive ==
    [][ /\ (view'.held /\ ~view'.stale)
           => \A n \in Names :
                LET items == ProxyItems(view'.view, dicts') IN
                /\ (n \in DOMAIN items) = IsRegisteredAfter(view'.dtype, n)
                /\ (n \in DOMAIN items)
                     => LoadedAfter(view'.dtype, n) = <<"ok", RetClass(items[n])>>
        /\ last'.op = "view_setitem"
           => last'.outcome = "ReadOnlyView" /\ RegistryUnchanged
      ]_vars

C9_Witness ==
    /\ view.held /\ ~view.stale
    /\ last.op = "unregister" /\ last.outcome = "ok" /\ last.dtype = view.dtype
    /\ DOMAIN ProxyItems(view.view, dicts) # {}

(* C10: register(C, n) without a class changes no registration and returns *)
(* a completion function; calling that function with impl has the outcome, *)
(* the return value and the effect that register(C, n, impl) has in the    *)
(* registry as it is at the moment of that call.                           *)
C10_DeferredEquivalent ==
    [][ /\ (last'.op = "register" /\ last'.cls = None)
           => /\ last'.outcome = "ok"
              /\ last'.ret[1] = "partial"
              /\ RegistryUnchanged
        /\ last'.op = "complete"
           => LET r == register(last'.dtype, last'.name, last'.cls,
                                custom_types, dicts) IN
              /\ last'.outcome = r.outcome
              /\ last'.ret = r.ret
              /\ dicts' = r.dicts
              /\ custom_types' = custom_types
      ]_vars

(* a completion function that registered SubA, in a manager that already   *)
(* held another name when it was called                                    *)
C10_Witness ==
    /\ last.op = "complete"
    /\ last.outcome = "ok"
    /\ last.ret = RetClass("SubA")
    /\ \E n \in Names \ {last.name} : IsRegistered(last.dtype, n)

(* C11: when load(C, n) fails because n is not registered, the error lists *)
(* the names registered under C at that moment, each once, in ascending    *)
(* order (no name when C has none), and the registry is unchanged.         *)
C11_ErrorListsNames ==
    [][ (last'.op = "load" /\ last'.outcome = "NameNotRegistered")
        => LET o == last'.options IN
           /\ \A i, j \in DOMAIN o : i < j => str_lt(o[i], o[j])
           /\ {o[i] : i \in DOMAIN o}
                = {n \in LookupNames : IsRegistered(last'.dtype, n)}
           /\ RegistryUnchanged
      ]_vars

C11_Witness ==
    /\ last.op = "load"
    /\ last.outcome = "NameNotRegistered"
    /\ last.options = <<"x", "y">>

----------------------------------------------------------------------------
(* create_args as a function of its input: the two loops run to their end  *)

(* the first loop over a list in which every argument parses *)
RECURSIVE parse_all(_, _)
parse_all(L, arg_dict) ==
    IF L = <<>> THEN arg_dict
    ELSE parse_all(Tail(L), parse_extension_arg(Head(L), arg_dict).arg_dict)

(* the second loop over the names in one order, stopping where             *)
(* update_namespace raises                                                 *)
RECURSIVE apply_all(_, _, _)
apply_all(names, arg_dict, tree) ==
    IF names = <<>> THEN [outcome |-> "ok", tree |-> tree]
    ELSE LET r == update_namespace(tree, <<>>, split(Head(names)), arg_dict[Head(names)])
         IN IF r.outcome = "ok"
            THEN apply_all(Tail(names), arg_dict, r.tree)
            ELSE [outcome |-> r.outcome, tree |-> r.tree]

----------------------------------------------------------------------------
(* What a caller can observe of create_args *)

(* the raw arguments the parser takes, the dotted path and the value it    *)
(* reads from each                                                         *)
Matches(arg) == re_match(arg).matched
PathOf(arg) == re_match(arg).group1
ValueOf(arg) == re_match(arg).group4

AllValid(L) == \A k \in DOMAIN L : Matches(L[k])

(* the dotted paths of the valid arguments of a list, and the value of the *)
(* last occurrence of a path                                               *)
PathStrings(L) == {PathOf(L[k]) : k \in {j \in DOMAIN L : Matches(L[j])}}
Occurrences(L, p) == {k \in DOMAIN L : Matches(L[k]) /\ PathOf(L[k]) = p}
LastOf(S) == CHOOSE k \in S : \A j \in S : j <= k
LastValue(L, p) == ValueOf(L[LastOf(Occurrences(L, p))])

(* some path of the list is a proper segment-prefix of another *)
HasPrefixPair(L) ==
    \E p, q \in PathStrings(L) : IsProperPrefix(split(p), split(q))

(* the tree of a set P of paths of the list: a leaf with the path's value  *)
(* at the end of every path, namespace nodes on the way, nothing else      *)
TreeOf(L, P) ==
    LET ends == {split(p) : p \in P}
        nodes == UNION {{SubSeq(e, 1, k) : k \in 1..Len(e)} : e \in ends}
    IN [q \in nodes |->
          IF q \in ends
          THEN StrLeaf(LastValue(L, CHOOSE p \in P : split(p) = q))
          ELSE NsNode]

Finished == pc \in {"done", "raised"}

(* C12: for any list of valid raw arguments in which no path is a proper   *)
(* segment-prefix of another, create_args on an empty root succeeds and    *)
(* the root ends as exactly the tree of those paths.                       *)
C12_Original ==
    (Finished /\ AllValid(args) /\ ~HasPrefixPair(args))
    => /\ pc = "done"
       /\ root = TreeOf(args, PathStrings(args))

Conflict == "ConflictingNamespaceAssignment"
Invalid == "InvalidArgumentSyntax"

FirstInvalid(L) ==
    L[CHOOSE k \in DOMAIN L : ~Matches(L[k]) /\ \A j \in 1..k - 1 : Matches(L[j])]

(* C14: all raw arguments are parsed before any namespace mutation: the    *)
(* root is untouched while arguments are parsed, and if any raw argument,  *)
(* at any position, is invalid, create_args fails with                     *)
(* InvalidArgumentSyntax naming that raw string and the root stays as it   *)
(* was, even when valid arguments precede the invalid one.                 *)
C14_ParsedBeforeMutation ==
    /\ pc = "parse" => root = EmptyDict
    /\ ~AllValid(args)
       => /\ root = EmptyDict
          /\ pc \in {"parse", "raised"}
          /\ pc = "raised" => error = [kind |-> Invalid, what |-> FirstInvalid(args)]

(* a valid argument was parsed, then an invalid one raised *)
C14_Witness ==
    /\ pc = "raised"
    /\ error.kind = Invalid
    /\ idx > 1
    /\ extension_args # EmptyDict
    /\ error.what = args[idx]

(* C15: the parser accepts a raw string if and only if the text before its *)
(* first '=' is a non-empty dot-separated chain of identifiers (a letter   *)
(* or underscore, then letters, digits or underscores); on acceptance the  *)
(* path is that text and the value is everything after the first '=';      *)
(* every other string fails with InvalidArgumentSyntax and adds nothing to *)
(* the accumulator.                                                        *)
C15_Original ==
    (Len(args) = 1 /\ pc # "parse")
    => LET s == args[1]
           eq == Find(s, {"="}, 1)
           before == SubSeq(s, 1, eq - 1)
           after == SubSeq(s, eq + 1, Len(s))
           IsIdentifier(t) ==
               /\ Len(t) >= 1
               /\ t[1] \in Letters \cup {"_"}
               /\ \A k \in 2..Len(t) : t[k] \in Letters \cup Digits \cup {"_"}
           accepts ==
               /\ eq <= Len(s)
               /\ \A k \in DOMAIN split(before) : IsIdentifier(split(before)[k])
       IN IF accepts
          THEN /\ pc = "sort"
               /\ extension_args = DictSet(EmptyDict, before, after)
          ELSE /\ pc = "raised"
               /\ error = [kind |-> Invalid, what |-> s]
               /\ extension_args = EmptyDict

(* C16: when the same dotted path occurs several times in the input list,  *)
(* the repetition raises no error (the parser raises only on an invalid    *)
(* string, and once all are parsed the accumulator maps every path to the  *)
(* value of its last occurrence), and a leaf set in the tree for a path    *)
(* holds the value of its last occurrence in input order; after a          *)
(* successful run every path has its leaf.                                 *)
C16_LastWriteWins ==
    /\ (pc = "raised" /\ error.kind = Invalid) => ~Matches(args[idx])
    /\ (pc \in {"sort", "apply", "done"} \/ (pc = "raised" /\ error.kind = Conflict))
       => extension_args = [p \in PathStrings(args) |-> LastValue(args, p)]
    /\ \A p \in PathStrings(args) :
         /\ (split(p) \in DOMAIN root /\ root[split(p)][1] = "str")
            => root[split(p)] = StrLeaf(LastValue(args, p))
         /\ pc = "done" => split(p) \in DOMAIN root /\ root[split(p)][1] = "str"

(* a path given twice with different values, another argument after the    *)
(* first occurrence, and the run has succeeded with the later value        *)
C16_Witness ==
    /\ pc = "done"
    /\ Len(args) = 3
    /\ PathOf(args[1]) = PathOf(args[3])
    /\ PathOf(args[2]) # PathOf(args[1])
    /\ ValueOf(args[1]) # ValueOf(args[3])
    /\ root[split(PathOf(args[1]))] = StrLeaf(ValueOf(args[3]))

(* C17: during a run of create_args on an empty root, no step replaces or  *)
(* removes an attribute the tree already holds (a name only goes from      *)
(* absent to namespace node or from absent to leaf), and the conflict is   *)
(* only ever raised by a path meeting a leaf that a shorter path, applied  *)
(* before it, has set.                                                     *)
C17_Original ==
    [][ /\ \A q \in DOMAIN root : q \in DOMAIN root' /\ root'[q] = root[q]
        /\ (error.kind = "none" /\ error'.kind = Conflict)
           => \E k \in 1..idx - 1 :
                /\ Len(names_sorted[k]) < Len(names_sorted[idx])
                /\ IsProperPrefix(split(names_sorted[k]), split(names_sorted[idx]))
                /\ split(names_sorted[k]) \in DOMAIN root
                /\ root[split(names_sorted[k])][1] = "str"
      ]_vars

(* C18: one application of update_namespace that fails with                *)
(* ConflictingNamespaceAssignment leaves the tree exactly as it was: no    *)
(* intermediate node is created and no leaf is set by the failing path.    *)
C18_Original ==
    [][ (error.kind = "none" /\ error'.kind = Conflict) => root' = root ]_vars

(* C19: when create_args fails with ConflictingNamespaceAssignment on an   *)
(* initially empty root, the root holds exactly the tree of the paths      *)
(* ordered before the failing path, and nothing of the failing path or of  *)
(* the paths ordered after it.                                             *)
C19_Original ==
    (pc = "raised" /\ error.kind = Conflict)
    => root = TreeOf(args, {names_sorted[k] : k \in 1..idx - 1})

(* every argument of the list is valid and no two carry the same path *)
DistinctPaths(L) == AllValid(L) /\ Cardinality(PathStrings(L)) = Len(L)

====
